---- MODULE Spec2Model ----
(***************************************************************************)
(* A model of package clock (src/clock.go): the fake clock made by         *)
(* NewFake, a time.Time guarded by a sync.RWMutex, called by concurrent    *)
(* goroutines through Now, Add and Set; and the system clock returned by   *)
(* Default, whose Now is time.Now().                                       *)
(*                                                                         *)
(* time.Time is modelled by the three words of its struct without a        *)
(* monotonic reading: wall (the nanoseconds within the second), ext (the   *)
(* seconds) and loc (the location).  A goroutine copies a time.Time word   *)
(* by word, so a copy made without the lock can mix two instants.          *)
(*                                                                         *)
(* The widths are scaled down so that the arithmetic of time.Duration      *)
(* (int64 nanoseconds in Go) wraps within the model: a Duration has        *)
(* DurBits bits, a second has NsPerSec nanoseconds and the seconds of a    *)
(* time.Time have SecBits bits.                                            *)
(***************************************************************************)
EXTENDS Integers, Sequences, FiniteSets

(* ------------------------------ bounds -------------------------------- *)
NumProcs == 2
MaxCalls == 3
DurBits == 3
NsPerSec == 3
SecBits == 5
MaxTicks == 2

Procs == 1..NumProcs
\* The fakes: two are enough for what is claimed of separate fakes.
Clocks == {1, 2}

(* --------------------------- time.Duration ---------------------------- *)
DurMin == -(2^(DurBits - 1))
DurMax == 2^(DurBits - 1) - 1
Duration == DurMin..DurMax

\* The sum of two Durations as Go computes it: signed, wrapping at DurBits.
WrapDur(x) == ((x - DurMin) % (2^DurBits)) + DurMin

\* Go's integer division and remainder truncate toward zero.
Quot(a, b) == IF a >= 0 THEN a \div b ELSE -((-a) \div b)
Rem(a, b) == a - b * Quot(a, b)

(* ----------------------------- time.Time ------------------------------ *)
MaxSec == 2^(SecBits - 1) - 1
Locations == {"UTC", "Local"}
Time == [wall : 0..(NsPerSec - 1), ext : (-MaxSec)..MaxSec, loc : Locations]

\* The zero value of a local variable of type time.Time.
ZeroTime == [wall |-> 0, ext |-> 0, loc |-> "UTC"]

\* time.Unix(sec, nsec): nsec is brought into [0, NsPerSec), location Local.
Unix(sec, nsec) ==
    LET q == nsec \div NsPerSec
        r == nsec % NsPerSec
    IN  [wall |-> r, ext |-> sec + q, loc |-> "Local"]

\* Time.UTC(): the same instant with the location set to UTC.
UTC(t) == [t EXCEPT !.loc = "UTC"]

\* Time.addSec: the seconds saturate at the ends of their range.
addSec(sec, dsec) ==
    LET sum == sec + dsec
    IN  IF sum > MaxSec THEN MaxSec
        ELSE IF sum < -MaxSec THEN -MaxSec
        ELSE sum

\* A Time.Add that starts from the Unix epoch instead of from t.
TimeAdd_NotAccumulating(t, d) ==
    [wall |-> d % NsPerSec, ext |-> d \div NsPerSec, loc |-> t.loc]

\* A Time.Add that does not carry the nanoseconds into the seconds.
TimeAdd_NoCarry(t, d) ==
    [wall |-> (t.wall + Rem(d, NsPerSec)) % NsPerSec,
     ext |-> addSec(t.ext, Quot(d, NsPerSec)),
     loc |-> t.loc]

\* Time.Add(d): whole seconds and the remaining nanoseconds are added
\* apart, and the nanoseconds are carried into the seconds.
TimeAdd(t, d) ==
    LET dsec == Quot(d, NsPerSec)
        nsec == t.wall + Rem(d, NsPerSec)
        carry == IF nsec >= NsPerSec THEN 1 ELSE IF nsec < 0 THEN -1 ELSE 0
    IN  [wall |-> nsec - carry * NsPerSec,
         ext |-> addSec(t.ext, dsec + carry),
         loc |-> t.loc]

\* The instant of a time.Time in nanoseconds since the Unix epoch.
UnixNano(t) == t.ext * NsPerSec + t.wall

\* The first and the last instant a time.Time holds.
FirstTime == [wall |-> 0, ext |-> -MaxSec, loc |-> "UTC"]
LastTime == [wall |-> NsPerSec - 1, ext |-> MaxSec, loc |-> "UTC"]

\* The same two in nanoseconds.
MinNano == UnixNano(FirstTime)
MaxNano == UnixNano(LastTime)

\* Whether a time.Time holds the instant n nanoseconds from the epoch.
InRange(n) == MinNano <= n /\ n <= MaxNano

\* Time.Equal: the same instant, whatever the location.
Equal(a, b) == a.ext = b.ext /\ a.wall = b.wall

(* ------------------------------ inputs -------------------------------- *)
Durations == {DurMin, -1, 0, DurMax}
SetTimes == {Unix(1, 1), UTC(Unix(-1, NsPerSec - 1))}
Ops == {"Now", "Add", "Set"}

\* The arguments of Set with the two ends of time.Time among them.
EdgeTimes == SetTimes \cup {FirstTime, LastTime}

(* ------------------------------- state -------------------------------- *)
VARIABLES
    made,    \* the number of fakes NewFake has made: fakes 1..made
    t,       \* t[c]: the field t of fake c
    mu,      \* mu[c]: the embedded sync.RWMutex of fake c
    pc,      \* pc[p]: where goroutine p is in its call
    op,      \* op[p]: the method goroutine p is in
    clk,     \* clk[p]: the receiver f of that call
    d,       \* d[p]: the argument d of Add
    val,     \* val[p]: the time.Time local to the call
    k,       \* k[p]: the word of the time.Time being copied
    calls,   \* the number of calls made so far
    hist,    \* hist[c]: what has been done to fake c (history, not program state)
    systemClock,  \* the package variable systemClock
    host,    \* the time of the host, what time.Now() returns
    held,    \* held[p]: the Clock goroutine p has from Default()
    got      \* got[p]: the values p keeps of those Now returned to it, in order

\* The system clock and what the callers keep.
outer == <<systemClock, host, held, got>>

vars == <<made, t, mu, pc, op, clk, d, val, k, calls, hist, outer>>

Fields == <<"wall", "ext", "loc">>
NumFields == Len(Fields)

\* A sync.RWMutex nobody holds.
NewRWMutex ==
    [w |-> FALSE, pending |-> FALSE, readerCount |-> 0,
     readerWait |-> 0, readerSem |-> 0, writerSem |-> 0]

\* A copy that leaves the location behind.
CopyField_NoLoc(dst, src, i) ==
    CASE i = 1 -> [dst EXCEPT !.wall = src.wall]
      [] i = 2 -> [dst EXCEPT !.ext = src.ext]
      [] OTHER -> dst

\* One word of src copied into dst.
CopyField(dst, src, i) ==
    CASE i = 1 -> [dst EXCEPT !.wall = src.wall]
      [] i = 2 -> [dst EXCEPT !.ext = src.ext]
      [] OTHER -> [dst EXCEPT !.loc = src.loc]

\* The history of a fake that holds x and has not been mutated.
\*   wasSet  whether a Set has finished
\*   adds    the number of Adds finished since the last Set (or NewFake)
\*   sum     the sum of their durations, as a number
\*   open    whether a mutation was called, with no other in progress, and
\*           none has finished since
\*   before  f.t when that mutation was called
\*   recent  the mutations that finished since, in the order they
\*           finished; while open, those of the time before
\*   base    the argument of the last Set to finish (or what NewFake stored)
\*   over    whether one of the Adds since went past the first or the last
\*           instant a time.Time holds
NewHist(x) ==
    [wasSet |-> FALSE, adds |-> 0, sum |-> 0,
     open |-> FALSE, before |-> x, recent |-> <<>>,
     base |-> x, over |-> FALSE]

\* A NewFake without the call of UTC().
NewFake_Local == [t |-> Unix(0, 0), mu |-> NewRWMutex]

\* NewFake: a new fake whose t is the Unix epoch in UTC.
NewFake == [t |-> UTC(Unix(0, 0)), mu |-> NewRWMutex]

\* var systemClock Clock = sysClock{}: a struct without fields.
SysClock == "sysClock{}"

\* The time of the host when the program starts: some instant after the
\* epoch, in the local zone.
HostStart == Unix(1, 1)

\* n fakes that hold x, with history h, and no goroutine in a call.
Start(n, x, h) ==
    /\ made = n
    /\ t = [c \in Clocks |-> x]
    /\ mu = [c \in Clocks |-> NewFake.mu]
    /\ pc = [p \in Procs |-> "idle"]
    /\ op = [p \in Procs |-> "none"]
    /\ clk = [p \in Procs |-> 1]
    /\ d = [p \in Procs |-> 0]
    /\ val = [p \in Procs |-> ZeroTime]
    /\ k = [p \in Procs |-> 1]
    /\ calls = 0
    /\ hist = [c \in Clocks |-> h]
    /\ systemClock = SysClock
    /\ host = HostStart
    /\ held = [p \in Procs |-> "none"]
    /\ got = [p \in Procs |-> <<>>]

\* The state after n calls of NewFake.
Made(n) == Start(n, NewFake.t, NewHist(NewFake.t))

\* The history of a fake from NewFake that Adds of one nanosecond, one
\* after the other, have brought to x.
AgedHist(x) ==
    [wasSet |-> FALSE, adds |-> UnixNano(x), sum |-> UnixNano(x),
     open |-> FALSE, before |-> TimeAdd(x, -1),
     recent |-> <<[op |-> "Add", d |-> 1, t |-> ZeroTime]>>,
     base |-> NewFake.t, over |-> FALSE]

\* The last instant a time.Time holds and the one a second before it, in
\* the location NewFake gives.
LateTimes ==
    {[LastTime EXCEPT !.loc = NewFake.t.loc],
     [LastTime EXCEPT !.loc = NewFake.t.loc, !.ext = MaxSec - 1]}

\* One fake from NewFake, new or brought by a long run of Adds to within
\* two seconds of the last instant (calls counts the calls from there).
InitMono == Made(1) \/ \E x \in LateTimes : Start(1, x, AgedHist(x))

\* One fake, shared by the goroutines.
Init == Made(1)

\* Two fakes, from two calls of NewFake.
InitTwo == Made(Cardinality(Clocks))

(* ---------------------------- operations ------------------------------ *)
\* The first statement of each method.
Entry(o) == IF o = "Now" THEN "RLock" ELSE "Lock"

\* Whether a goroutine other than p is inside Add or Set of fake c.
OtherMutating(p, c) ==
    \E q \in Procs \ {p} : pc[q] # "idle" /\ clk[q] = c /\ op[q] \in {"Add", "Set"}

\* The goroutine that called NewFake; it hands the FakeClock to the others.
Maker == 1

\* A call on a fake that was handed on as a struct, not as the pointer
\* NewFake returns: the maker calls the fake, another goroutine its copy.
Invoke_ByValue(p, o, c, dd, tt) ==
    LET own == IF p = Maker THEN c ELSE 2 IN
    /\ pc[p] = "idle"
    /\ c \in 1..made
    /\ calls < MaxCalls
    /\ calls' = calls + 1
    /\ pc' = [pc EXCEPT ![p] = Entry(o)]
    /\ op' = [op EXCEPT ![p] = o]
    /\ clk' = [clk EXCEPT ![p] = own]
    /\ d' = [d EXCEPT ![p] = IF o = "Add" THEN dd ELSE 0]
    /\ val' = [val EXCEPT ![p] = IF o = "Set" THEN tt ELSE ZeroTime]
    /\ k' = [k EXCEPT ![p] = 1]
    /\ hist' = IF o \in {"Add", "Set"} /\ ~OtherMutating(p, own)
                THEN [hist EXCEPT ![own].open = TRUE, ![own].before = t[own]]
                ELSE hist
    /\ UNCHANGED <<outer, made, t, mu>>

\* Goroutine p calls method o of fake c with arguments dd (Add) and tt (Set).
Invoke(p, o, c, dd, tt) ==
    /\ pc[p] = "idle"
    /\ c \in 1..made
    /\ calls < MaxCalls
    /\ calls' = calls + 1
    /\ pc' = [pc EXCEPT ![p] = Entry(o)]
    /\ op' = [op EXCEPT ![p] = o]
    /\ clk' = [clk EXCEPT ![p] = c]
    /\ d' = [d EXCEPT ![p] = IF o = "Add" THEN dd ELSE 0]
    /\ val' = [val EXCEPT ![p] = IF o = "Set" THEN tt ELSE ZeroTime]
    /\ k' = [k EXCEPT ![p] = 1]
    /\ hist' = IF o \in {"Add", "Set"} /\ ~OtherMutating(p, c)
                THEN [hist EXCEPT ![c].open = TRUE, ![c].before = t[c]]
                ELSE hist
    /\ UNCHANGED <<outer, made, t, mu>>

\* A call on a fake the goroutines share.  The goroutines that are not in
\* a call are alike: the first of them makes the call.
Call(p, o, c, dd, tt) ==
    /\ \A q \in Procs : q < p => pc[q] # "idle"
    /\ Invoke(p, o, c, dd, tt)

\* A call on a fake that is owned by one goroutine, as a test owns the fake
\* it made: goroutine p calls fake p.
CallOwn(p, o, dd, tt) == Invoke(p, o, p, dd, tt)

\* A call on a fake that is used by one goroutine at a time: it is made
\* when every call before it has returned.
CallSeq(p, o, c, dd, tt) ==
    /\ \A q \in Procs : pc[q] = "idle"
    /\ Call(p, o, c, dd, tt)

\* A call on a fake whose maker mutates it, while the goroutines it handed
\* the FakeClock to call Now.
CallShared(p, o, c, dd, tt) ==
    /\ (p = Maker) = (o \in {"Add", "Set"})
    /\ Invoke(p, o, c, dd, tt)

\* The call of p returns: its locals are gone.
Return(p) ==
    /\ pc' = [pc EXCEPT ![p] = "idle"]
    /\ op' = [op EXCEPT ![p] = "none"]
    /\ clk' = [clk EXCEPT ![p] = 1]
    /\ d' = [d EXCEPT ![p] = 0]
    /\ val' = [val EXCEPT ![p] = ZeroTime]
    /\ k' = [k EXCEPT ![p] = 1]

\* An RLock that does not wait behind a pending writer.
RLock_NoWait(p) ==
    /\ pc[p] = "RLock"
    /\ mu' = [mu EXCEPT ![clk[p]].readerCount = @ + 1]
    /\ pc' = [pc EXCEPT ![p] = "Read"]
    /\ UNCHANGED <<outer, made, t, op, clk, d, val, k, calls, hist>>

\* An RLock of a lock that admits one reader at a time (a sync.Mutex).
RLock_Exclusive(p) ==
    /\ pc[p] = "RLock"
    /\ LET m == mu[clk[p]] IN
        /\ m.readerCount = 0
        /\ mu' = [mu EXCEPT ![clk[p]].readerCount = m.readerCount + 1]
        /\ pc' = [pc EXCEPT ![p] = IF m.pending THEN "RLockWait" ELSE "Read"]
    /\ UNCHANGED <<outer, made, t, op, clk, d, val, k, calls, hist>>

\* f.RLock(): the reader is counted; behind a pending writer it waits.
RLock(p) ==
    /\ pc[p] = "RLock"
    /\ LET m == mu[clk[p]] IN
        /\ mu' = [mu EXCEPT ![clk[p]].readerCount = m.readerCount + 1]
        /\ pc' = [pc EXCEPT ![p] = IF m.pending THEN "RLockWait" ELSE "Read"]
    /\ UNCHANGED <<outer, made, t, op, clk, d, val, k, calls, hist>>

\* The reader blocked in RLock is woken by the writer's Unlock.
RLockWait(p) ==
    /\ pc[p] = "RLockWait"
    /\ mu[clk[p]].readerSem > 0
    /\ mu' = [mu EXCEPT ![clk[p]].readerSem = @ - 1]
    /\ pc' = [pc EXCEPT ![p] = "Read"]
    /\ UNCHANGED <<outer, made, t, op, clk, d, val, k, calls, hist>>

\* A Now that puts the stored time into UTC while it reads it.
Read_Normalising(p) ==
    /\ pc[p] = "Read"
    /\ val' = [val EXCEPT ![p] = CopyField(val[p], t[clk[p]], k[p])]
    /\ t' = [t EXCEPT ![clk[p]] = UTC(@)]
    /\ IF k[p] < NumFields
         THEN /\ k' = [k EXCEPT ![p] = k[p] + 1]
              /\ pc' = pc
         ELSE /\ k' = [k EXCEPT ![p] = 1]
              /\ pc' = [pc EXCEPT ![p] = "RUnlock"]
    /\ UNCHANGED <<outer, made, mu, op, clk, d, calls, hist>>

\* return f.t: the result is copied from f.t, one word at a step.
Read(p) ==
    /\ pc[p] = "Read"
    /\ val' = [val EXCEPT ![p] = CopyField(val[p], t[clk[p]], k[p])]
    /\ IF k[p] < NumFields
         THEN /\ k' = [k EXCEPT ![p] = k[p] + 1]
              /\ pc' = pc
         ELSE /\ k' = [k EXCEPT ![p] = 1]
              /\ pc' = [pc EXCEPT ![p] = "RUnlock"]
    /\ UNCHANGED <<outer, made, t, mu, op, clk, d, calls, hist>>

\* What the caller keeps of a call that returned x.
Kept(x) == [v |-> x, at |-> host]

\* An RUnlock that never wakes the writer that waits for the readers.
RUnlock_NoWake(p) ==
    /\ pc[p] = "RUnlock"
    /\ LET m == mu[clk[p]] IN
        mu' = [mu EXCEPT ![clk[p]] =
                 [m EXCEPT !.readerCount = m.readerCount - 1,
                           !.readerWait = IF m.pending THEN @ - 1 ELSE @]]
    /\ Return(p)
    /\ UNCHANGED <<outer, made, t, calls, hist>>

\* The deferred f.RUnlock(); the last reader a writer waits for wakes it.
\* Now returns val[p].
RUnlock(p) ==
    /\ pc[p] = "RUnlock"
    /\ LET m == mu[clk[p]]
           wake == m.pending /\ m.readerWait - 1 = 0
       IN  mu' = [mu EXCEPT ![clk[p]] =
                    [m EXCEPT !.readerCount = m.readerCount - 1,
                              !.readerWait = IF m.pending THEN @ - 1 ELSE @,
                              !.writerSem = IF wake THEN @ + 1 ELSE @]]
    /\ Return(p)
    /\ UNCHANGED <<outer, made, t, calls, hist>>

\* x := f.Now(): the same, and the caller keeps the value returned.
RUnlockKept(p) ==
    /\ pc[p] = "RUnlock"
    /\ LET m == mu[clk[p]]
           wake == m.pending /\ m.readerWait - 1 = 0
       IN  mu' = [mu EXCEPT ![clk[p]] =
                    [m EXCEPT !.readerCount = m.readerCount - 1,
                              !.readerWait = IF m.pending THEN @ - 1 ELSE @,
                              !.writerSem = IF wake THEN @ + 1 ELSE @]]
    /\ got' = [got EXCEPT ![p] = Append(@, Kept(val[p]))]
    /\ Return(p)
    /\ UNCHANGED <<systemClock, host, held, made, t, calls, hist>>

\* x = x.Add(dd), on the value the caller last kept: Time.Add gives a new
\* time.Time, which the caller puts in the place of the old.
Derive(p, dd) ==
    /\ pc[p] = "idle"
    /\ got[p] # <<>>
    /\ calls < MaxCalls
    /\ calls' = calls + 1
    /\ got' = [got EXCEPT ![p][Len(got[p])].v = TimeAdd(@, dd)]
    /\ UNCHANGED <<systemClock, host, held, made, t, mu, pc, op, clk, d, val, k, hist>>

\* A Lock that does not keep the other writers out.
Lock_NoExclusion(p) ==
    /\ pc[p] = "Lock"
    /\ mu' = [mu EXCEPT ![clk[p]].w = TRUE]
    /\ pc' = [pc EXCEPT ![p] = "Announce"]
    /\ UNCHANGED <<outer, made, t, op, clk, d, val, k, calls, hist>>

\* f.Lock(), first half: rw.w.Lock() keeps the other writers out.
Lock(p) ==
    /\ pc[p] = "Lock"
    /\ ~mu[clk[p]].w
    /\ mu' = [mu EXCEPT ![clk[p]].w = TRUE]
    /\ pc' = [pc EXCEPT ![p] = "Announce"]
    /\ UNCHANGED <<outer, made, t, op, clk, d, val, k, calls, hist>>

\* The statement after f.Lock() in method o.
Body(o) == IF o = "Add" THEN "Load" ELSE "Store"

\* A Lock that does not wait for the readers that are active.
Announce_NoDrain(p) ==
    /\ pc[p] = "Announce"
    /\ mu' = [mu EXCEPT ![clk[p]].pending = TRUE]
    /\ pc' = [pc EXCEPT ![p] = Body(op[p])]
    /\ UNCHANGED <<outer, made, t, op, clk, d, val, k, calls, hist>>

\* f.Lock(), second half: the writer is announced to the readers and waits
\* for the readers that are active.
Announce(p) ==
    /\ pc[p] = "Announce"
    /\ LET m == mu[clk[p]]
           r == m.readerCount
           wait == r # 0 /\ m.readerWait + r # 0
       IN  /\ mu' = [mu EXCEPT ![clk[p]] =
                       [m EXCEPT !.pending = TRUE,
                                 !.readerWait = IF r # 0 THEN @ + r ELSE @]]
           /\ pc' = [pc EXCEPT ![p] = IF wait THEN "LockWait" ELSE Body(op[p])]
    /\ UNCHANGED <<outer, made, t, op, clk, d, val, k, calls, hist>>

\* The writer blocked in Lock is woken by the last active reader.
LockWait(p) ==
    /\ pc[p] = "LockWait"
    /\ mu[clk[p]].writerSem > 0
    /\ mu' = [mu EXCEPT ![clk[p]].writerSem = @ - 1]
    /\ pc' = [pc EXCEPT ![p] = Body(op[p])]
    /\ UNCHANGED <<outer, made, t, op, clk, d, val, k, calls, hist>>

\* Add, f.t.Add(d): f.t is copied one word at a step, then d is added to
\* the copy.
Load(p) ==
    /\ pc[p] = "Load"
    /\ LET v == CopyField(val[p], t[clk[p]], k[p]) IN
        IF k[p] < NumFields
          THEN /\ val' = [val EXCEPT ![p] = v]
               /\ k' = [k EXCEPT ![p] = k[p] + 1]
               /\ pc' = pc
          ELSE /\ val' = [val EXCEPT ![p] = TimeAdd(v, d[p])]
               /\ k' = [k EXCEPT ![p] = 1]
               /\ pc' = [pc EXCEPT ![p] = "Store"]
    /\ UNCHANGED <<outer, made, t, mu, op, clk, d, calls, hist>>

\* The mutation goroutine p is making: Add(d) or Set(t).
Mutation(p) ==
    [op |-> op[p], d |-> d[p], t |-> IF op[p] = "Set" THEN val[p] ELSE ZeroTime]

\* The history of a fake after mutation m has finished writing f.t.
Finished(h, m) ==
    [wasSet |-> h.wasSet \/ m.op = "Set",
     adds |-> IF m.op = "Set" THEN 0 ELSE h.adds + 1,
     sum |-> IF m.op = "Set" THEN 0 ELSE h.sum + m.d,
     open |-> FALSE,
     before |-> h.before,
     recent |-> IF h.open THEN <<m>> ELSE Append(h.recent, m),
     base |-> IF m.op = "Set" THEN m.t ELSE h.base,
     over |-> IF m.op = "Set" THEN FALSE
              ELSE h.over \/ ~InRange(UnixNano(h.base) + h.sum + m.d)]

\* A Store into a time that all the fakes share (that of fake 1).
Store_Shared(p) ==
    /\ pc[p] = "Store"
    /\ t' = [t EXCEPT ![1] = CopyField(t[1], val[p], k[p])]
    /\ IF k[p] < NumFields
         THEN /\ k' = [k EXCEPT ![p] = k[p] + 1]
              /\ pc' = pc
              /\ hist' = hist
         ELSE /\ k' = [k EXCEPT ![p] = 1]
              /\ pc' = [pc EXCEPT ![p] = "Unlock"]
              /\ hist' = [hist EXCEPT ![clk[p]] = Finished(@, Mutation(p))]
    /\ UNCHANGED <<outer, made, mu, op, clk, d, val, calls>>

\* A Store into a time.Time that the values Now returned refer to.
Store_Aliased(p) ==
    /\ pc[p] = "Store"
    /\ t' = [t EXCEPT ![clk[p]] = CopyField(t[clk[p]], val[p], k[p])]
    /\ got' = [q \in Procs |->
                [i \in 1..Len(got[q]) |->
                   [got[q][i] EXCEPT !.v = CopyField(@, val[p], k[p])]]]
    /\ IF k[p] < NumFields
         THEN /\ k' = [k EXCEPT ![p] = k[p] + 1]
              /\ pc' = pc
              /\ hist' = hist
         ELSE /\ k' = [k EXCEPT ![p] = 1]
              /\ pc' = [pc EXCEPT ![p] = "Unlock"]
              /\ hist' = [hist EXCEPT ![clk[p]] = Finished(@, Mutation(p))]
    /\ UNCHANGED <<systemClock, host, held, made, mu, op, clk, d, val, calls>>

\* f.t = ...: the value is stored into f.t, one word at a step.
Store(p) ==
    /\ pc[p] = "Store"
    /\ t' = [t EXCEPT ![clk[p]] = CopyField(t[clk[p]], val[p], k[p])]
    /\ IF k[p] < NumFields
         THEN /\ k' = [k EXCEPT ![p] = k[p] + 1]
              /\ pc' = pc
              /\ hist' = hist
         ELSE /\ k' = [k EXCEPT ![p] = 1]
              /\ pc' = [pc EXCEPT ![p] = "Unlock"]
              /\ hist' = [hist EXCEPT ![clk[p]] = Finished(@, Mutation(p))]
    /\ UNCHANGED <<outer, made, mu, op, clk, d, val, calls>>

\* An Unlock that lets the next writer in but leaves the lock announced as
\* held to the readers.
Unlock_StillPending(p) ==
    /\ pc[p] = "Unlock"
    /\ mu' = [mu EXCEPT ![clk[p]].w = FALSE]
    /\ Return(p)
    /\ UNCHANGED <<outer, made, t, calls, hist>>

\* A deferred f.RUnlock() in the place of f.Unlock().
Unlock_AsRUnlock(p) ==
    /\ pc[p] = "Unlock"
    /\ mu' = [mu EXCEPT ![clk[p]].readerCount = @ - 1]
    /\ Return(p)
    /\ UNCHANGED <<outer, made, t, calls, hist>>

\* The deferred f.Unlock(): the readers blocked behind the writer are
\* woken, then the other writers are let in.  Add and Set return.
Unlock(p) ==
    /\ pc[p] = "Unlock"
    /\ LET m == mu[clk[p]] IN
        mu' = [mu EXCEPT ![clk[p]] =
                 [m EXCEPT !.pending = FALSE,
                           !.readerSem = @ + m.readerCount,
                           !.w = FALSE]]
    /\ Return(p)
    /\ UNCHANGED <<outer, made, t, calls, hist>>

\* func (f *fake) Now() time.Time
Now(p) == op[p] = "Now" /\ (RLock(p) \/ RLockWait(p) \/ Read(p) \/ RUnlock(p))

\* The steps of Lock and Unlock that Add and Set share.
Locking(p) == Lock(p) \/ Announce(p) \/ LockWait(p) \/ Unlock(p)

\* func (f *fake) Add(d time.Duration)
Add(p) == op[p] = "Add" /\ (Locking(p) \/ Load(p) \/ Store(p))

\* func (f *fake) Set(t time.Time)
Set(p) == op[p] = "Set" /\ (Locking(p) \/ Store(p))

\* A step of the call goroutine p is in.
Step(p) == Now(p) \/ Add(p) \/ Set(p)

\* x := f.Now()
NowKept(p) ==
    op[p] = "Now" /\ (RLock(p) \/ RLockWait(p) \/ Read(p) \/ RUnlockKept(p))

\* A step of the call goroutine p is in, when it keeps what Now returns.
StepKept(p) == NowKept(p) \/ Add(p) \/ Set(p)

Next ==
    \/ \E p \in Procs, o \in Ops, c \in Clocks, dd \in Durations, tt \in SetTimes :
         Call(p, o, c, dd, tt)
    \/ \E p \in Procs : Step(p)

Spec == Init /\ [][Next]_vars

\* Two tests side by side, each with its own fake.
NextTwo ==
    \/ \E p \in Procs, o \in Ops, dd \in Durations, tt \in SetTimes :
         CallOwn(p, o, dd, tt)
    \/ \E p \in Procs : Step(p)

SpecTwo == InitTwo /\ [][NextTwo]_vars

\* The calls on one fake where the arguments are always the same: no step
\* of a call waits on, or branches on, an argument of Add or Set.
NextFair ==
    \/ \E p \in Procs, o \in Ops, c \in Clocks : Call(p, o, c, -1, Unix(1, 1))
    \/ \E p \in Procs : Step(p)

\* The goroutines are scheduled fairly: one that can go on with its call
\* does go on.  Nothing makes a goroutine call.
FairSpec == Init /\ [][NextFair]_vars /\ \A p \in Procs : WF_vars(Step(p))

\* One fake in the hands of several goroutines: the maker's Adds and Sets,
\* the others' Nows.
NextShared ==
    \/ \E p \in Procs, o \in Ops, c \in Clocks, dd \in Durations, tt \in SetTimes :
         CallShared(p, o, c, dd, tt)
    \/ \E p \in Procs : Step(p)

SpecShared == Init /\ [][NextShared]_vars

\* A Default that makes a Clock of its own at every call.
Default_NewFake(p) ==
    /\ pc[p] = "idle"
    /\ calls < MaxCalls
    /\ calls' = calls + 1
    /\ held' = [held EXCEPT ![p] = "*fake"]
    /\ UNCHANGED <<systemClock, host, got, made, t, mu, pc, op, clk, d, val, k, hist>>

\* func Default() Clock: return systemClock
Default(p) ==
    /\ pc[p] = "idle"
    /\ calls < MaxCalls
    /\ calls' = calls + 1
    /\ held' = [held EXCEPT ![p] = systemClock]
    /\ UNCHANGED <<systemClock, host, got, made, t, mu, pc, op, clk, d, val, k, hist>>

\* A Now that reads the host once and returns that reading ever after.
SysNow_Cached(p) ==
    /\ pc[p] = "idle"
    /\ held[p] = SysClock
    /\ calls < MaxCalls
    /\ calls' = calls + 1
    /\ got' = [got EXCEPT ![p] =
                 Append(@, Kept(IF got[p] # <<>> THEN got[p][1].v ELSE host))]
    /\ UNCHANGED <<systemClock, host, held, made, t, mu, pc, op, clk, d, val, k, hist>>

\* func (s sysClock) Now() time.Time: return time.Now(), called on the Clock
\* from Default(); the caller keeps the value.
SysNow(p) ==
    /\ pc[p] = "idle"
    /\ held[p] = SysClock
    /\ calls < MaxCalls
    /\ calls' = calls + 1
    /\ got' = [got EXCEPT ![p] = Append(@, Kept(host))]
    /\ UNCHANGED <<systemClock, host, held, made, t, mu, pc, op, clk, d, val, k, hist>>

\* The time of the host goes on by a nanosecond; it is never set back.
Tick ==
    /\ UnixNano(host) < UnixNano(HostStart) + MaxTicks
    /\ host' = TimeAdd(host, 1)
    /\ UNCHANGED <<systemClock, held, got, made, t, mu, pc, op, clk, d, val, k, calls, hist>>

\* The whole package: the system clock beside a fake, while the time of the
\* host goes on.  The arguments of Add and Set are always the same.
NextSys ==
    \/ \E p \in Procs, o \in Ops, c \in Clocks : Call(p, o, c, -1, Unix(1, 1))
    \/ \E p \in Procs : Step(p)
    \/ \E p \in Procs : Default(p)
    \/ \E p \in Procs : SysNow(p)
    \/ Tick

SpecSys == Init /\ [][NextSys]_vars

\* One fake, called by one goroutine at a time with durations and instants
\* up to the ends of their types; and Default.
NextSeq ==
    \/ \E p \in Procs, o \in Ops, c \in Clocks, dd \in Durations, tt \in EdgeTimes :
         CallSeq(p, o, c, dd, tt)
    \/ \E p \in Procs : Step(p)
    \/ \E p \in Procs : Default(p)

SpecSeq == Init /\ [][NextSeq]_vars

\* The durations that do not move the time backward.
Forward == {dd \in Durations \cup {1} : dd >= 0}

\* A step of the call goroutine p is in, when the calls are Now and Add.
StepForward(p) == NowKept(p) \/ Add(p)

\* One fake whose only mutations are Adds of durations that are not
\* negative; the callers of Now keep the values.
NextMono ==
    \/ \E p \in Procs, o \in {"Now", "Add"}, c \in Clocks, dd \in Forward :
         Call(p, o, c, dd, ZeroTime)
    \/ \E p \in Procs : StepForward(p)

SpecMono == InitMono /\ [][NextMono]_vars

\* The callers of one fake keep the values Now returns and go on computing
\* with them.  Two durations and one instant are the arguments: no step of
\* a call branches on them.
NextValue ==
    \/ \E p \in Procs, o \in Ops, c \in Clocks, dd \in {-1, DurMax} :
         Call(p, o, c, dd, Unix(1, 1))
    \/ \E p \in Procs : StepKept(p)
    \/ \E p \in Procs, dd \in {-1, DurMax} : Derive(p, dd)

SpecValue == Init /\ [][NextValue]_vars

(* --------------------------- what is claimed -------------------------- *)
\* The Unix epoch in UTC.
Epoch == [wall |-> 0, ext |-> 0, loc |-> "UTC"]

\* Goroutine p is inside Add or Set of fake c.
Mutating(p, c) == pc[p] # "idle" /\ clk[p] = c /\ op[p] \in {"Add", "Set"}

\* No Add or Set of fake c is in progress.
Quiet(c) == \A p \in Procs : ~Mutating(p, c)

\* Goroutine p holds the write lock, between f.Lock() and f.Unlock().
InWrite(p) == pc[p] \in {"Load", "Store", "Unlock"}

\* Goroutine p holds the read lock, between f.RLock() and f.RUnlock().
InRead(p) == pc[p] \in {"Read", "RUnlock"}

\* Goroutine p has the result of Now in val[p] and is about to return it.
HasResult(p) == pc[p] = "RUnlock"

\* What mutation m makes of the stored time x when it runs alone.
ApplyMut(m, x) == IF m.op = "Add" THEN TimeAdd(x, m.d) ELSE m.t

\* What the mutations ms, one after the other, make of the stored time x.
RECURSIVE ApplyAll(_, _)
ApplyAll(ms, x) ==
    IF ms = <<>> THEN x ELSE ApplyAll(Tail(ms), ApplyMut(Head(ms), x))

TypeOK ==
    /\ made \in 1..Cardinality(Clocks)
    /\ t \in [Clocks -> Time]
    /\ pc \in [Procs -> {"idle", "RLock", "RLockWait", "Read", "RUnlock",
                         "Lock", "Announce", "LockWait", "Load", "Store", "Unlock"}]
    /\ op \in [Procs -> Ops \cup {"none"}]
    /\ clk \in [Procs -> Clocks]
    /\ d \in [Procs -> Duration]
    /\ val \in [Procs -> Time]
    /\ k \in [Procs -> 1..NumFields]
    /\ calls \in 0..MaxCalls
    /\ systemClock \in {SysClock}
    /\ host \in Time
    /\ held \in [Procs -> {"none", SysClock}]
    /\ \A p \in Procs :
          /\ Len(got[p]) <= MaxCalls
          /\ \A i \in 1..Len(got[p]) : got[p][i].v \in Time /\ got[p][i].at \in Time

\* C1: when the only mutations of a fake from NewFake are Adds, and all of
\* them have returned, Now returns the epoch plus the sum of their
\* durations, however the Adds were interleaved.
NoLostUpdates ==
    \A p \in Procs :
        (HasResult(p) /\ Quiet(clk[p]) /\ ~hist[clk[p]].wasSet)
            => /\ UnixNano(val[p]) = hist[clk[p]].sum
               /\ val[p].loc = "UTC"

\* Two Adds that overlapped have returned, and Now has their sum.
NoLostUpdatesWitness ==
    \E p \in Procs :
        /\ HasResult(p) /\ Quiet(clk[p]) /\ ~hist[clk[p]].wasSet
        /\ hist[clk[p]].adds >= 2
        /\ Len(hist[clk[p]].recent) >= 2
        /\ hist[clk[p]].sum # 0

\* C2: a goroutine that holds the write lock of a fake has it alone, with no
\* other writer and no reader; and the result of Now is the stored time,
\* whole.
MutualExclusion ==
    /\ \A p, q \in Procs :
          (p # q /\ clk[p] = clk[q] /\ InWrite(p)) => (~InWrite(q) /\ ~InRead(q))
    /\ \A p \in Procs : HasResult(p) => val[p] = t[clk[p]]

\* A writer has written a part of f.t while a reader of the same fake waits.
MutualExclusionWitness ==
    \E p, q \in Procs :
        /\ p # q /\ clk[p] = clk[q]
        /\ pc[p] = "Store" /\ k[p] > 1 /\ t[clk[p]] # hist[clk[p]].before
        /\ pc[q] = "RLockWait"

\* C3: while the last mutation of a fake to finish is Set(x), Now returns
\* exactly x, location and all, whatever the fake held before.
SetThenNow ==
    \A p \in Procs :
        LET h == hist[clk[p]] IN
        (HasResult(p) /\ h.recent # <<>> /\ h.recent[Len(h.recent)].op = "Set")
            => val[p] = h.recent[Len(h.recent)].t

\* Now has the result x after a Set(x) that moved the time backward.
SetThenNowWitness ==
    \E p \in Procs :
        LET h == hist[clk[p]] IN
        /\ HasResult(p) /\ ~h.open /\ Len(h.recent) = 1
        /\ h.recent[1].op = "Set"
        /\ val[p] = h.recent[1].t
        /\ UnixNano(h.before) > UnixNano(val[p])

\* Fake c is as NewFake made it but for n Adds, all of which have returned.
OnlyAdds(c, n) == Quiet(c) /\ ~hist[c].wasSet /\ hist[c].adds = n

\* C4, as claimed: a fake after Add(d1) and Add(d2) holds the same time as
\* a fake after the one Add(d1 + d2), the sum being a Duration.
AddIsAdditive ==
    \A a, b \in Clocks :
        (OnlyAdds(a, 2) /\ OnlyAdds(b, 1) /\ hist[b].sum = WrapDur(hist[a].sum))
            => t[a] = t[b]

\* C4, amended: the same, where d1 + d2 does not overflow the Duration.
AddIsAdditiveInRange ==
    \A a, b \in Clocks :
        (OnlyAdds(a, 2) /\ OnlyAdds(b, 1) /\ hist[b].sum = hist[a].sum
           /\ hist[a].sum \in Duration)
            => t[a] = t[b]

\* Two Adds on one fake and the Add of their sum on the other, the sum
\* being in range and not zero.
AddIsAdditiveWitness ==
    \E a, b \in Clocks :
        /\ OnlyAdds(a, 2) /\ OnlyAdds(b, 1) /\ hist[b].sum = hist[a].sum
        /\ hist[a].sum \in Duration /\ hist[a].sum # 0
        /\ t[a] = t[b]

\* No Add or Set of fake c has been called.
Untouched(c) == hist[c].recent = <<>> /\ ~hist[c].open

\* C5: Now on a fake from NewFake, before any Add or Set, returns the Unix
\* epoch in UTC.
FreshIsEpoch ==
    \A p \in Procs : (HasResult(p) /\ Untouched(clk[p])) => val[p] = Epoch

\* Now has its result on a fake nobody has mutated.
FreshIsEpochWitness ==
    \E p \in Procs : HasResult(p) /\ Untouched(clk[p]) /\ val[p] = Epoch

\* C6: the stored time of a fake changes only in a step that stores a word
\* of Add or Set; no step of Now changes it.
OnlyAddAndSetWrite ==
    [][\A c \in Clocks :
         t'[c] # t[c] =>
            \E p \in Procs : pc[p] = "Store" /\ Mutating(p, c) /\ k'[p] # k[p]]_vars

\* Now is reading a fake whose time is no longer what NewFake gave it.
OnlyAddAndSetWriteWitness ==
    \E p \in Procs :
        /\ pc[p] = "Read" /\ k[p] > 1
        /\ t[clk[p]] # Epoch /\ t[clk[p]].loc = "Local"

\* C7: the time and the lock of a fake change only in a step of a call on
\* that fake, and a call on a fake that one goroutine owns never waits,
\* whatever is done to the other fake.
FakesAreIndependent ==
    /\ [][\A c \in Clocks :
            (t'[c] # t[c] \/ mu'[c] # mu[c]) =>
               \E p \in Procs :
                  pc[p] # "idle" /\ clk[p] = c /\ (pc'[p] # pc[p] \/ k'[p] # k[p])]_vars
    /\ [](\A p \in Procs :
            /\ pc[p] \notin {"RLockWait", "LockWait"}
            /\ pc[p] = "Lock" => ~mu[clk[p]].w)

\* One fake is being written, having been mutated before, while Now on the
\* other fake has the epoch as its result.
FakesAreIndependentWitness ==
    \E p, q \in Procs :
        /\ clk[p] # clk[q]
        /\ pc[p] = "Store" /\ k[p] > 1 /\ hist[clk[p]].recent # <<>>
        /\ HasResult(q) /\ val[q] = Epoch /\ t[clk[p]] # Epoch

\* C8: when two mutations of a fake have overlapped and both have returned,
\* the fake holds what the two make of the time it held before, applied
\* whole, one after the other, in one of the two orders.
RacingWritersSerialize ==
    \A c \in Clocks :
        LET h == hist[c] IN
        (Quiet(c) /\ Len(h.recent) = 2)
            => t[c] \in {ApplyMut(h.recent[2], ApplyMut(h.recent[1], h.before)),
                         ApplyMut(h.recent[1], ApplyMut(h.recent[2], h.before))}

\* Set(a) and Set(b), a # b, have overlapped and both have returned.
RacingWritersSerializeWitness ==
    \E c \in Clocks :
        LET h == hist[c] IN
        /\ Quiet(c) /\ Len(h.recent) = 2
        /\ h.recent[1].op = "Set" /\ h.recent[2].op = "Set"
        /\ h.recent[1].t # h.recent[2].t

\* C9: under FairSpec every call returns.
EveryCallReturns ==
    \A p \in Procs : (pc[p] # "idle") ~> (pc[p] = "idle")

\* A writer waits for a reader, and a second reader waits for the writer.
EveryCallReturnsWitness ==
    \E p, q \in Procs :
        /\ clk[p] = clk[q]
        /\ pc[p] = "LockWait" /\ mu[clk[p]].writerSem = 0
        /\ pc[q] \in {"RLockWait", "Lock"}

\* C10: a goroutine at f.RLock() can always take its step, and it waits in
\* RLock only while a writer of the same fake has announced itself.
ReadersDoNotBlockReaders ==
    \A p \in Procs :
        /\ pc[p] = "RLock" => ENABLED RLock(p)
        /\ (pc[p] = "RLockWait" /\ mu[clk[p]].readerSem = 0)
              => \E q \in Procs \ {p} :
                    /\ Mutating(q, clk[p])
                    /\ pc[q] \in {"LockWait", "Load", "Store", "Unlock"}

\* Two goroutines hold the read lock of one fake.
ReadersDoNotBlockReadersWitness ==
    \E p, q \in Procs : p # q /\ clk[p] = clk[q] /\ InRead(p) /\ InRead(q)

\* C11: the goroutines that have the FakeClock of one NewFake call act on the
\* one fake it made: once an Add or Set of the maker has returned, Now
\* through any other holder returns what that mutation made of the time,
\* and no lock or time but that of a made fake is ever used.
SharedHandle ==
    /\ \A c \in 1..made : \A q \in Procs \ {Maker} :
          LET h == hist[c] IN
          (HasResult(q) /\ Quiet(c) /\ ~h.open /\ Len(h.recent) = 1)
              => val[q] = ApplyMut(h.recent[1], h.before)
    /\ \A p \in Procs : pc[p] # "idle" => clk[p] \in 1..made
    /\ \A c \in Clocks \ (1..made) : t[c] = NewFake.t /\ mu[c] = NewFake.mu

\* A goroutine other than the maker has, as the result of Now, the time the
\* maker's last mutation stored.
SharedHandleWitness ==
    \E q \in Procs \ {Maker} :
        LET h == hist[clk[q]] IN
        /\ HasResult(q) /\ Quiet(clk[q]) /\ ~h.open /\ Len(h.recent) = 1
        /\ h.wasSet /\ h.adds > 0
        /\ val[q] = ApplyMut(h.recent[1], h.before)
        /\ val[q] # h.before

\* The values goroutine p has kept are the same after the step as before.
KeptUnchanged(p) ==
    /\ Len(got'[p]) >= Len(got[p])
    /\ \A i \in 1..Len(got[p]) : got'[p][i] = got[p][i]

\* C12: a step of a call on the fake, a store of Add or Set among them,
\* leaves every value that Now returned earlier as it was; and a step in
\* which a caller changes a value it kept leaves the time and the lock of
\* the fake as they were, so that the next Now returns what it would have.
NowReturnsValue ==
    [][/\ (\E q \in Procs : pc'[q] # pc[q] \/ k'[q] # k[q])
            => \A p \in Procs : KeptUnchanged(p)
       /\ (\E p \in Procs : ~KeptUnchanged(p)) => (t' = t /\ mu' = mu)]_vars

\* Now is about to return a time that is not the one its caller kept from
\* an earlier Now: the fake was mutated since, or the caller went on from
\* the value it kept.
NowReturnsValueWitness ==
    \E p \in Procs :
        /\ HasResult(p) /\ got[p] # <<>>
        /\ hist[clk[p]].recent # <<>>
        /\ val[p] # got[p][Len(got[p])].v
        /\ val[p] = t[clk[p]]

\* C13: every call of Default returns the one sysClock{} that systemClock
\* was declared with, whatever was called before; no step assigns
\* systemClock; and a Now of that clock changes nothing but what its
\* caller keeps of the result.
DefaultIsStateless ==
    /\ [](/\ systemClock = SysClock
          /\ \A p \in Procs : held[p] # "none" => held[p] = SysClock)
    /\ [][systemClock' = systemClock]_vars
    /\ [][(\E p \in Procs : pc[p] = "idle" /\ Len(got'[p]) > Len(got[p]))
            => UNCHANGED <<systemClock, host, held, made, t, mu>>]_vars

\* After a mutation of the fake and a Now of the system clock, two
\* goroutines have the same Clock from Default.
DefaultIsStatelessWitness ==
    \E p, q \in Procs :
        /\ p # q /\ held[p] = SysClock /\ held[q] = held[p]
        /\ got[p] # <<>> \/ hist[1].recent # <<>>

\* The instant of what goroutine p kept of its i-th Now.
GotNano(p, i) == UnixNano(got[p][i].v)

\* C14: every Now of the system clock returned the time the host had at
\* that call; so of two Nows of one caller the later never returned an
\* earlier time, and returned a later time when the host had gone on.
SysNowIsHostTime ==
    \A p \in Procs : \A j \in 1..Len(got[p]) :
        /\ got[p][j].v = got[p][j].at
        /\ \A i \in 1..(j - 1) :
              /\ GotNano(p, i) <= GotNano(p, j)
              /\ UnixNano(got[p][i].at) < UnixNano(got[p][j].at)
                    => GotNano(p, i) < GotNano(p, j)

\* A caller has two values of the system clock: the host went on between
\* the two calls, into the next second.
SysNowIsHostTimeWitness ==
    \E p \in Procs :
        /\ Len(got[p]) >= 2
        /\ got[p][1].at # got[p][2].at
        /\ got[p][1].v.ext < got[p][2].v.ext

\* Goroutine p is at an unlock that sync ends the program for: RUnlock of
\* a lock no reader holds, Unlock of a lock no writer holds.
Fatal(p) ==
    \/ pc[p] = "RUnlock" /\ mu[clk[p]].readerCount <= 0
    \/ pc[p] = "Unlock" /\ ~(mu[clk[p]].w /\ mu[clk[p]].pending)

\* C15: with calls one at a time and arguments up to the ends of their
\* types, every operation can be called with every argument, a call in
\* progress can always take its next step up to its return, no unlock is
\* one that ends the program, and every value stays one of its type.
Total ==
    /\ TypeOK
    /\ \A p \in Procs :
          /\ ~Fatal(p)
          /\ pc[p] # "idle" => ENABLED Step(p)
          /\ (pc[p] = "idle" /\ calls < MaxCalls) => ENABLED Default(p)
    /\ ((\A p \in Procs : pc[p] = "idle") /\ calls < MaxCalls)
          => \A o \in Ops, dd \in Durations, tt \in EdgeTimes :
                ENABLED CallSeq(1, o, 1, dd, tt)

\* An Add has gone past the end of time.Time and returned, and the next
\* call is in progress.
TotalWitness ==
    \E p \in Procs :
        /\ pc[p] \notin {"idle", "RLock", "Lock"}
        /\ hist[clk[p]].over /\ ~hist[clk[p]].open
        /\ t[clk[p]].ext \in {-MaxSec, MaxSec}

\* C16, as claimed: with calls one at a time, Now returns the argument of
\* the last Set (what NewFake stored, if there was none) moved by the sum
\* of the durations of the Adds since, in the location of that argument.
SetPlusAdds ==
    \A p \in Procs :
        LET h == hist[clk[p]] IN
        HasResult(p)
            => /\ UnixNano(val[p]) = UnixNano(h.base) + h.sum
               /\ val[p].loc = h.base.loc

\* C16, amended: the same, where no Add since the last Set went past the
\* first or the last instant of time.Time.
SetPlusAddsInRange ==
    \A p \in Procs :
        LET h == hist[clk[p]] IN
        (HasResult(p) /\ ~h.over)
            => /\ UnixNano(val[p]) = UnixNano(h.base) + h.sum
               /\ val[p].loc = h.base.loc

\* Now has its result after a Set and an Add that stayed in range, the Set
\* having undone what was there before it.
SetPlusAddsWitness ==
    \E p \in Procs :
        LET h == hist[clk[p]] IN
        /\ HasResult(p) /\ ~h.over
        /\ h.wasSet /\ h.adds >= 1 /\ h.sum # 0
        /\ UnixNano(val[p]) = UnixNano(h.base) + h.sum
        /\ val[p].loc = "Local"

\* C17: the result of Now is the stored time of a moment within the call,
\* the one at which Now has it: the time the fake held when its mutations
\* last began to overlap, with those that have stored since applied whole,
\* in the order in which they held the write lock, and no part of a later
\* one.
NowIsLinearizable ==
    \A p \in Procs :
        LET h == hist[clk[p]] IN
        HasResult(p)
            => val[p] = IF h.open THEN h.before ELSE ApplyAll(h.recent, h.before)

\* Now has its result between two mutations that overlap: one has stored,
\* the other waits for the reader to release the lock.
NowIsLinearizableWitness ==
    \E p, q \in Procs :
        LET h == hist[clk[p]] IN
        /\ HasResult(p) /\ ~h.open /\ h.recent # <<>>
        /\ Mutating(q, clk[p]) /\ pc[q] \in {"Lock", "Announce", "LockWait"}
        /\ val[p] # h.before
        /\ val[p] = ApplyAll(h.recent, h.before)

\* The values Now returned to each caller are in order of time.
InOrder ==
    \A p \in Procs : \A j \in 1..Len(got[p]) : \A i \in 1..(j - 1) :
        GotNano(p, i) <= GotNano(p, j)

\* C18, as claimed: when the only mutations of a fake since NewFake are
\* Adds of durations that are not negative, no caller gets from Now a time
\* before one it got from an earlier Now, whatever Adds run beside.
NowIsMonotone == InOrder

\* C18, amended: the same, as long as no Add has gone past the last
\* instant of time.Time.
NowIsMonotoneInRange == ~hist[1].over => InOrder

\* A caller has two values of Now, the later one after an Add that ran
\* beside a Now and carried into the next second.
NowIsMonotoneWitness ==
    \E p \in Procs :
        /\ Len(got[p]) >= 2 /\ ~hist[1].over
        /\ Len(hist[1].recent) >= 1 /\ hist[1].recent[1].d > 0
        /\ got[p][1].v.ext < got[p][2].v.ext
        /\ got[p][1].v.wall > got[p][2].v.wall

\* Goroutine p returns in this step from a call of method o.
Returns(p, o) == pc[p] # "idle" /\ op[p] = o /\ pc'[p] = "idle"

\* Goroutine p makes a step in fake c.
InCall(p, c) == pc[p] # "idle" /\ clk[p] = c

\* C19: a fake with no call in progress has its lock as NewFake made it,
\* held by no reader and no writer and with nobody to wake; a call returns
\* in the step that releases the lock it took, Now one read lock and
\* Add and Set the write lock, held until then; and no other step of a
\* call releases anything.
LockIsBalanced ==
    /\ [](\A c \in Clocks :
            (\A p \in Procs : ~InCall(p, c)) => mu[c] = NewRWMutex)
    /\ [][\A p \in Procs :
            LET m == mu[clk[p]]
                n == mu'[clk[p]]
            IN  /\ Returns(p, "Now")
                  => /\ InRead(p) /\ m.readerCount > 0
                     /\ n.readerCount = m.readerCount - 1
                     /\ n.w = m.w /\ n.pending = m.pending
                /\ (Returns(p, "Add") \/ Returns(p, "Set"))
                  => /\ InWrite(p) /\ m.w /\ m.pending
                     /\ ~n.w /\ ~n.pending
                     /\ n.readerCount = m.readerCount
                /\ (InCall(p, clk[p]) /\ pc'[p] # pc[p] /\ pc'[p] # "idle")
                  => /\ n.readerCount >= m.readerCount
                     /\ m.w => n.w
                     /\ m.pending => n.pending]_vars

\* Every call has returned, after mutations that overlapped.
LockIsBalancedWitness ==
    /\ \A p \in Procs : pc[p] = "idle"
    /\ calls = MaxCalls
    /\ Len(hist[1].recent) >= 2
    /\ mu[1] = NewRWMutex
====
